---- MODULE Spec2Model ----
(***************************************************************************)
(* Design review assistant: the property-extraction, token-resolution and  *)
(* comparison pipeline of src/app.py and src/index.py.                     *)
(* SpecBatch is the batch driver process_design_review of src/index.py.    *)
(*                                                                         *)
(* Python strings are sequences of one-character strings, so that the      *)
(* regular expressions, endswith/replace/int conversions of the source are *)
(* computed rather than assumed.  Python scalars are tagged records        *)
(* ([str |-> s], [bool |-> b], [int |-> n], [none |-> TRUE]); a Python     *)
(* dict used as a value descriptor is a record whose DOMAIN is the set of  *)
(* keys present; an (insertion ordered) property dict is a sequence of     *)
(* [k |-> key, v |-> value] entries with distinct keys.  A function that   *)
(* returns gives Returned(x); one left by an exception gives Raised(e).    *)
(* Inputs are strings over the ASCII characters the source tests for,      *)
(* scalars that are strings, booleans or integers, and flat token          *)
(* dictionaries keyed by strings.                                          *)
(***************************************************************************)
EXTENDS Integers, Sequences, FiniteSets, TLC

VARIABLES value, parsed,                       \* parse_property_value: argument, result
          props, tokens, resolved,             \* resolve_tokens: arguments, result
          figma_props, pr_props, other_props,  \* compare_components: arguments (other_props: a second run's pr_props)
          idx, issues,                         \* compare_components: loop position, issue list
          figma_spec, jsx_content, file, result, \* analyze / process_design_review loop body
          diff_result, parsed_values,          \* process_design_review: the two result dicts
          component,                           \* process_design_review: position of `for component in components`
          pc, output                           \* process_design_review: control position, files written

vars == <<value, parsed, props, tokens, resolved, figma_props, pr_props,
          other_props, idx, issues, figma_spec, jsx_content, file, result,
          diff_result, parsed_values, component, pc, output>>

batch_vars == <<diff_result, parsed_values, component, pc, output>>

-----------------------------------------------------------------------------
(* Python values *)

None == [none |-> TRUE]
PyStr(s) == [str |-> s]
PyBool(b) == [bool |-> b]
PyInt(n) == [int |-> n]
IsStr(v) == "str" \in DOMAIN v
IsDict(v) == DOMAIN v \cap {"str", "bool", "int", "none", "raised", "unset"} = {}
Unset == [unset |-> TRUE]
Raised(e) == [raised |-> e]
Returned(x) == [returned |-> x]
IsReturned(r) == "returned" \in DOMAIN r

\* process_design_review not running
BatchIdle ==
    /\ diff_result = None /\ parsed_values = None
    /\ component = 0 /\ pc = None /\ output = None

-----------------------------------------------------------------------------
(* String literals of the source *)

S_var_open == <<"v","a","r","(","-","-">>
S_var_prefix == <<"v","a","r","(">>
S_color_dash == <<"c","o","l","o","r","-">>
S_px == <<"p","x">>
S_percentage == <<"p","e","r","c","e","n","t","a","g","e">>
S_hover == <<"h","o","v","e","r">>
S_focus == <<"f","o","c","u","s">>
S_imageAltRequired == <<"i","m","a","g","e","A","l","t","R","e","q","u","i","r","e","d">>
S_borderRadius == <<"b","o","r","d","e","r","R","a","d","i","u","s">>
S_9999px == <<"9","9","9","9","p","x">>
S_50pct == <<"5","0","%">>
S_alt == <<"a","l","t">>
S_style == <<"s","t","y","l","e">>

Digits == {"0","1","2","3","4","5","6","7","8","9"}
Whitespace == {" ", "\t", "\n"}

-----------------------------------------------------------------------------
(* str methods *)

StartsWithAt(s, sub, i) ==
    /\ i >= 1
    /\ i + Len(sub) - 1 <= Len(s)
    /\ SubSeq(s, i, i + Len(sub) - 1) = sub

StartsWith(s, sub) == StartsWithAt(s, sub, 1)

EndsWith(s, sub) == StartsWithAt(s, sub, Len(s) - Len(sub) + 1)

Contains(s, sub) == \E i \in 1..(Len(s) + 1) : StartsWithAt(s, sub, i)

\* s.replace(old, ''): every non-overlapping occurrence, left to right
RECURSIVE Remove(_, _)
Remove(s, old) ==
    IF s = <<>> THEN <<>>
    ELSE IF StartsWith(s, old) THEN Remove(SubSeq(s, Len(old) + 1, Len(s)), old)
    ELSE <<Head(s)>> \o Remove(Tail(s), old)

\* s.strip(chars)
RECURSIVE LStrip(_, _)
LStrip(s, chars) ==
    IF s # <<>> /\ Head(s) \in chars THEN LStrip(Tail(s), chars) ELSE s

RECURSIVE RStrip(_, _)
RStrip(s, chars) ==
    IF s # <<>> /\ s[Len(s)] \in chars THEN RStrip(SubSeq(s, 1, Len(s) - 1), chars) ELSE s

Strip(s, chars) == RStrip(LStrip(s, chars), chars)

isdigit(s) == s # <<>> /\ \A i \in 1..Len(s) : s[i] \in Digits

DigitVal(c) == CHOOSE n \in 0..9 : <<"0","1","2","3","4","5","6","7","8","9">>[n + 1] = c

\* the digits of a decimal literal: digit ('_'? digit)*
RECURSIVE IsDecimal(_)
IsDecimal(s) ==
    /\ s # <<>>
    /\ Head(s) \in Digits
    /\ \/ Len(s) = 1
       \/ IsDecimal(Tail(s))
       \/ Len(s) >= 3 /\ s[2] = "_" /\ IsDecimal(SubSeq(s, 3, Len(s)))

RECURSIVE DecimalVal(_, _)
DecimalVal(s, acc) ==
    IF s = <<>> THEN acc
    ELSE IF Head(s) = "_" THEN DecimalVal(Tail(s), acc)
    ELSE DecimalVal(Tail(s), 10 * acc + DigitVal(Head(s)))

ValueError == Raised("ValueError")

\* int(s): surrounding whitespace stripped, an optional sign, a decimal literal;
\* anything else raises ValueError
int(s) ==
    LET t == Strip(s, Whitespace)
        signed == t # <<>> /\ Head(t) \in {"+", "-"}
        body == IF signed THEN Tail(t) ELSE t
    IN  IF ~IsDecimal(body) THEN ValueError
        ELSE IF signed /\ Head(t) = "-" THEN PyInt(0 - DecimalVal(body, 0))
        ELSE PyInt(DecimalVal(body, 0))

-----------------------------------------------------------------------------
(* parse_property_value *)

RECURSIVE FirstIndex(_, _, _)
FirstIndex(s, c, i) ==
    IF i > Len(s) THEN 0
    ELSE IF s[i] = c THEN i
    ELSE FirstIndex(s, c, i + 1)

\* css_var_match with the optional "color-" group left out of the pattern
RECURSIVE css_var_match_keep_prefix(_, _)
css_var_match_keep_prefix(s, i) ==
    IF i > Len(s) THEN None
    ELSE IF ~StartsWithAt(s, S_var_open, i) THEN css_var_match_keep_prefix(s, i + 1)
    ELSE LET close == FirstIndex(s, ")", i + 6)
             body == SubSeq(s, i + 6, close - 1)
         IN  IF close = 0 THEN css_var_match_keep_prefix(s, i + 1)
             ELSE IF body # <<>> THEN PyStr(body)
             ELSE css_var_match_keep_prefix(s, i + 1)

\* re.search(r'var\(--(?:color-)?([^)]+)\)', value) from position i on:
\* group(1) of the leftmost match, or None
RECURSIVE css_var_match(_, _)
css_var_match(s, i) ==
    IF i > Len(s) THEN None
    ELSE IF ~StartsWithAt(s, S_var_open, i) THEN css_var_match(s, i + 1)
    ELSE LET close == FirstIndex(s, ")", i + 6)
             body == SubSeq(s, i + 6, close - 1)
         IN  IF close = 0 THEN css_var_match(s, i + 1)
             ELSE IF StartsWith(body, S_color_dash) /\ Len(body) > 6
                  THEN PyStr(SubSeq(body, 7, Len(body)))
             ELSE IF body # <<>> THEN PyStr(body)
             ELSE css_var_match(s, i + 1)

px_descriptor(s) ==
    LET n == int(Remove(s, S_px))
    IN  IF n = ValueError THEN [value |-> PyStr(s)]
        ELSE [value |-> PyStr(s), normalized |-> n.int]

\* parse_property_value testing 'px' in value instead of value.endswith('px')
parse_property_value_px_anywhere(s) ==
    LET css_var == css_var_match(s, 1)
    IN  IF css_var # None THEN [token |-> css_var, value |-> css_var]
        ELSE IF Contains(s, S_px)
             THEN IF Contains(s, <<" ">>) THEN [value |-> PyStr(s)]
                  ELSE px_descriptor(s)
        ELSE IF EndsWith(s, <<"%">>)
             THEN [value |-> PyStr(s), type |-> PyStr(S_percentage)]
        ELSE IF isdigit(s)
             THEN [value |-> PyStr(s), normalized |-> DecimalVal(s, 0)]
        ELSE IF Contains(s, <<"-">>) /\ ~StartsWith(s, S_var_prefix)
             THEN [token |-> PyStr(s), value |-> PyStr(s)]
        ELSE [value |-> PyStr(s)]

parse_property_value(s) ==
    LET css_var == css_var_match(s, 1)
    IN  IF css_var # None THEN [token |-> css_var, value |-> css_var]
        ELSE IF EndsWith(s, S_px)
             THEN IF Contains(s, <<" ">>) THEN [value |-> PyStr(s)]
                  ELSE px_descriptor(s)
        ELSE IF EndsWith(s, <<"%">>)
             THEN [value |-> PyStr(s), type |-> PyStr(S_percentage)]
        ELSE IF isdigit(s)
             THEN [value |-> PyStr(s), normalized |-> DecimalVal(s, 0)]
        ELSE IF Contains(s, <<"-">>) /\ ~StartsWith(s, S_var_prefix)
             THEN [token |-> PyStr(s), value |-> PyStr(s)]
        ELSE [value |-> PyStr(s)]

-----------------------------------------------------------------------------
(* Property dicts: insertion ordered, keys distinct *)

Keys(m) == { m[i].k : i \in 1..Len(m) }

\* m.get(key): the value stored under key, or None
Get(m, key) ==
    IF key \in Keys(m) THEN m[CHOOSE i \in 1..Len(m) : m[i].k = key].v ELSE None

\* m[key] = v: overwrites in place, or appends a new key
Put(m, key, v) ==
    IF key \in Keys(m)
    THEN [i \in 1..Len(m) |-> IF m[i].k = key THEN [k |-> key, v |-> v] ELSE m[i]]
    ELSE Append(m, [k |-> key, v |-> v])

\* d[field] = v on a descriptor
SetField(d, field, v) ==
    [f \in DOMAIN d \cup {field} |-> IF f = field THEN v ELSE d[f]]

\* x in tokens: the dictionary's keys are strings
InTokens(x, tk) == IsStr(x) /\ x.str \in DOMAIN tk

-----------------------------------------------------------------------------
(* parse_jsx_props *)

Letters ==
    { "a","b","c","d","e","f","g","h","i","j","k","l","m",
      "n","o","p","q","r","s","t","u","v","w","x","y","z",
      "A","B","C","D","E","F","G","H","I","J","K","L","M",
      "N","O","P","Q","R","S","T","U","V","W","X","Y","Z" }

\* \w
WordChars == Letters \cup Digits \cup { "_" }

S_style_open == S_style \o <<"=","{","{">>
S_textColor == <<"t","e","x","t","C","o","l","o","r">>
S_background == <<"b","a","c","k","g","r","o","u","n","d">>
S_backgroundColor == S_background \o <<"C","o","l","o","r">>

\* the other entries of the table map a name to itself
map_css_property_name(css_prop) ==
    IF css_prop = <<"c","o","l","o","r">> THEN S_textColor
    ELSE IF css_prop = S_background THEN S_backgroundColor
    ELSE css_prop

\* the last index of the run of word characters that starts at i
RECURSIVE WordEnd(_, _)
WordEnd(s, i) ==
    IF i + 1 <= Len(s) /\ s[i + 1] \in WordChars THEN WordEnd(s, i + 1) ELSE i

\* the last index of the run of characters of `chars` that starts at i, or
\* i - 1 when the run is empty
RECURSIVE RunEnd(_, _, _)
RunEnd(s, chars, i) ==
    IF i <= Len(s) /\ s[i] \in chars THEN RunEnd(s, chars, i + 1) ELSE i - 1

\* re.findall(r'(\w+)="([^"]+)"', s) from position i on: the (key, value)
\* pairs of the non-overlapping matches, left to right
RECURSIVE prop_matches(_, _)
prop_matches(s, i) ==
    IF i > Len(s) THEN << >>
    ELSE IF s[i] \notin WordChars THEN prop_matches(s, i + 1)
    ELSE LET j == WordEnd(s, i)
             close == FirstIndex(s, "\"", j + 3)
         IN  IF /\ j + 2 <= Len(s)
                /\ s[j + 1] = "="
                /\ s[j + 2] = "\""
                /\ close > j + 3
             THEN << [k |-> SubSeq(s, i, j), v |-> SubSeq(s, j + 3, close - 1)] >>
                  \o prop_matches(s, close + 1)
             ELSE prop_matches(s, i + 1)

\* re.search(r'style=\{\{([^}]+)\}\}', s) from position i on: group(1) of
\* the leftmost match, or None
RECURSIVE style_match(_, _)
style_match(s, i) ==
    IF i > Len(s) THEN None
    ELSE IF ~StartsWithAt(s, S_style_open, i) THEN style_match(s, i + 1)
    ELSE LET from == i + Len(S_style_open)
             close == FirstIndex(s, "}", from)
         IN  IF close > from /\ StartsWithAt(s, <<"}","}">>, close)
             THEN PyStr(SubSeq(s, from, close - 1))
             ELSE style_match(s, i + 1)

\* re.findall(r'(\w+):\s*([^,}]+)', s) from position i on
RECURSIVE css_matches(_, _)
css_matches(s, i) ==
    IF i > Len(s) THEN << >>
    ELSE IF s[i] \notin WordChars THEN css_matches(s, i + 1)
    ELSE LET j == WordEnd(s, i)
             ws == RunEnd(s, Whitespace, j + 2)
             \* \s* gives its last character back when nothing else follows it
             from == IF ws + 1 <= Len(s) /\ s[ws + 1] \notin { ",", "}" } THEN ws + 1
                     ELSE ws
             to == RunEnd(s, { s[n] : n \in 1..Len(s) } \ { ",", "}" }, from)
         IN  IF j + 1 <= Len(s) /\ s[j + 1] = ":" /\ from >= j + 2 /\ to >= from
             THEN << [k |-> SubSeq(s, i, j), v |-> SubSeq(s, from, to)] >>
                  \o css_matches(s, to + 1)
             ELSE css_matches(s, i + 1)

\* the first loop: props[key] = parse_property_value(value), 'style' skipped
RECURSIVE put_props(_, _)
put_props(m, matches) ==
    IF matches = << >> THEN m
    ELSE put_props(
            IF Head(matches).k = S_style THEN m
            ELSE Put(m, Head(matches).k, parse_property_value(Head(matches).v)),
            Tail(matches))

\* the second loop: the entries of the style object, cleaned and renamed
RECURSIVE put_style(_, _)
put_style(m, matches) ==
    IF matches = << >> THEN m
    ELSE LET clean_value == Strip(Strip(Head(matches).v, Whitespace), { "\"", "'" })
         IN  put_style(
                Put(m, map_css_property_name(Head(matches).k),
                    parse_property_value(clean_value)),
                Tail(matches))

parse_jsx_props(jsx) ==
    LET attrs == put_props(<< >>, prop_matches(jsx, 1))
        style == style_match(jsx, 1)
    IN  IF style = None THEN attrs
        ELSE put_style(attrs, css_matches(style.str, 1))

-----------------------------------------------------------------------------
(* resolve_tokens *)

\* the branch for raw scalars of the reference JSON
resolve_scalar(prop, tk) ==
    IF IsStr(prop)
    THEN IF prop.str \in DOMAIN tk
         THEN [token |-> prop, value |-> prop, resolved |-> tk[prop.str]]
         ELSE IF EndsWith(prop.str, S_px) /\ ~Contains(prop.str, <<" ">>)
              THEN LET n == int(Remove(prop.str, S_px))
                   IN  IF n = ValueError THEN ValueError
                       ELSE [value |-> prop, normalized |-> n.int]
              ELSE [value |-> prop]
    ELSE [value |-> prop]

\* resolve_descriptor without the assignment of 'token' in the value branch
resolve_descriptor_no_token(prop, tk) ==
    IF "token" \in DOMAIN prop /\ InTokens(prop.token, tk)
    THEN SetField(prop, "resolved", tk[prop.token.str])
    ELSE IF "value" \in DOMAIN prop /\ InTokens(prop.value, tk)
         THEN SetField(prop, "resolved", tk[prop.value.str])
         ELSE prop

\* the branch for structured descriptors
resolve_descriptor(prop, tk) ==
    IF "token" \in DOMAIN prop /\ InTokens(prop.token, tk)
    THEN SetField(prop, "resolved", tk[prop.token.str])
    ELSE IF "value" \in DOMAIN prop /\ InTokens(prop.value, tk)
         THEN SetField(SetField(prop, "resolved", tk[prop.value.str]), "token", prop.value)
         ELSE prop

\* index.py only: the pixel re-normalisation of a structured descriptor
normalize_pixels(prop, d) ==
    IF /\ "value" \in DOMAIN prop
       /\ IsStr(prop.value)
       /\ EndsWith(prop.value.str, S_px)
       /\ ~Contains(prop.value.str, <<" ">>)
    THEN LET n == int(Remove(prop.value.str, S_px))
         IN  IF n = ValueError THEN ValueError
             ELSE SetField(d, "normalized", n.int)
    ELSE d

resolve_prop(prop, tk) ==
    IF ~IsDict(prop) THEN resolve_scalar(prop, tk)
    ELSE resolve_descriptor(prop, tk)

resolve_prop_index(prop, tk) ==
    IF ~IsDict(prop) THEN resolve_scalar(prop, tk)
    ELSE normalize_pixels(prop, resolve_descriptor(prop, tk))

\* src/app.py: an exception in any entry leaves the function; otherwise the
\* resolved dict is returned
resolve_tokens(m, tk) ==
    IF \E i \in 1..Len(m) : resolve_prop(m[i].v, tk) = ValueError THEN ValueError
    ELSE Returned([i \in 1..Len(m) |-> [k |-> m[i].k, v |-> resolve_prop(m[i].v, tk)]])

\* src/index.py
resolve_tokens_index(m, tk) ==
    IF \E i \in 1..Len(m) : resolve_prop_index(m[i].v, tk) = ValueError THEN ValueError
    ELSE Returned([i \in 1..Len(m) |-> [k |-> m[i].k, v |-> resolve_prop_index(m[i].v, tk)]])

resolve_tokens_of(f, m, tk) ==
    IF f = "index" THEN resolve_tokens_index(m, tk) ELSE resolve_tokens(m, tk)

-----------------------------------------------------------------------------
(* compare_components *)

\* Python truthiness of a value or descriptor
Truthy(v) ==
    IF v = None THEN FALSE
    ELSE IF IsDict(v) THEN DOMAIN v # {}
    ELSE IF IsStr(v) THEN v.str # <<>>
    ELSE IF "bool" \in DOMAIN v THEN v.bool
    ELSE IF "int" \in DOMAIN v THEN v.int # 0
    ELSE FALSE

\* d.get(field)
GetField(d, field) == IF field \in DOMAIN d THEN d[field] ELSE None

Abs(n) == IF n < 0 THEN 0 - n ELSE n

AccessibilityIssue ==
    [ severity |-> "MAJOR", property |-> S_alt,
      figma |-> [required |-> PyBool(TRUE)], pr |-> [missing |-> PyBool(TRUE)],
      recommendation |-> [text |-> "Add alt attribute for accessibility compliance"],
      category |-> "ACCESSIBILITY_VIOLATION" ]

MissingIssue(key, figma_val) ==
    [ severity |-> "MINOR", property |-> key,
      figma |-> [value |-> figma_val], pr |-> [missing |-> PyBool(TRUE)],
      recommendation |-> [text |-> "Add missing property: {key}", key |-> key],
      category |-> "MISSING_PROPERTY" ]

TokenIssue(key, figma_val, pr_val) ==
    [ severity |-> "MAJOR", property |-> key,
      figma |-> [token |-> figma_val.token, value |-> GetField(figma_val, "resolved")],
      pr |-> [token |-> pr_val.token, value |-> GetField(pr_val, "resolved")],
      recommendation |-> [text |-> "Update PR to use '{figma token}' token instead of '{pr token}'",
                          figma |-> figma_val.token, pr |-> pr_val.token],
      category |-> "TOKEN_MISMATCH" ]

ValueIssue(key, figma_val, pr_val, severity) ==
    [ severity |-> severity, property |-> key,
      figma |-> [value |-> GetField(figma_val, "value")],
      pr |-> [value |-> GetField(pr_val, "value")],
      recommendation |-> [text |-> "Consider using {figma value} to match design spec (current: {pr value})",
                          figma |-> GetField(figma_val, "value"), pr |-> GetField(pr_val, "value")],
      category |-> "VALUE_DIFFERENCE" ]

RadiusIssue(key, figma_value, pr_value) ==
    [ severity |-> "MINOR", property |-> key,
      figma |-> [value |-> figma_value], pr |-> [value |-> pr_value],
      recommendation |-> [text |-> "Different border-radius approach but same visual effect"],
      category |-> "IMPLEMENTATION_DIFFERENCE" ]

\* missing_property skipping only 'hover' keys
missing_property_hover_only(key, figma_val) ==
    IF key = S_imageAltRequired /\ figma_val = PyBool(TRUE) THEN << AccessibilityIssue >>
    ELSE IF Contains(key, S_hover) THEN << >>
    ELSE << MissingIssue(key, figma_val) >>

\* missing_property with `if` for `elif`: the accessibility case falls through
\* to the MISSING_PROPERTY branch as well
missing_property_fallthrough(key, figma_val) ==
    (IF key = S_imageAltRequired /\ figma_val = PyBool(TRUE)
     THEN << AccessibilityIssue >> ELSE << >>)
    \o (IF Contains(key, S_hover) \/ Contains(key, S_focus) THEN << >>
        ELSE << MissingIssue(key, figma_val) >>)

\* the branch for a property the implementation lacks: the issues it appends
missing_property(key, figma_val) ==
    IF key = S_imageAltRequired /\ figma_val = PyBool(TRUE) THEN << AccessibilityIssue >>
    ELSE IF Contains(key, S_hover) \/ Contains(key, S_focus) THEN << >>
    ELSE << MissingIssue(key, figma_val) >>

\* compare_descriptors with the severity threshold off by one (diff >= 2)
compare_descriptors_ge2(key, figma_val, pr_val) ==
    IF Truthy(GetField(figma_val, "token")) /\ Truthy(GetField(pr_val, "token"))
    THEN IF figma_val.token # pr_val.token
         THEN << TokenIssue(key, figma_val, pr_val) >>
         ELSE << >>
    ELSE IF "normalized" \in DOMAIN figma_val /\ "normalized" \in DOMAIN pr_val
    THEN LET diff == Abs(figma_val.normalized - pr_val.normalized)
         IN  IF diff > 0
             THEN << ValueIssue(key, figma_val, pr_val,
                                IF diff >= 2 THEN "MAJOR" ELSE "MINOR") >>
             ELSE << >>
    ELSE << >>

\* the comparison of two structured descriptors: the issues it appends
compare_descriptors(key, figma_val, pr_val) ==
    IF Truthy(GetField(figma_val, "token")) /\ Truthy(GetField(pr_val, "token"))
    THEN IF figma_val.token # pr_val.token
         THEN << TokenIssue(key, figma_val, pr_val) >>
         ELSE << >>
    ELSE IF "normalized" \in DOMAIN figma_val /\ "normalized" \in DOMAIN pr_val
    THEN LET diff == Abs(figma_val.normalized - pr_val.normalized)
         IN  IF diff > 0
             THEN << ValueIssue(key, figma_val, pr_val,
                                IF diff > 2 THEN "MAJOR" ELSE "MINOR") >>
             ELSE << >>
    ELSE IF key = S_borderRadius
    THEN IF /\ GetField(figma_val, "value") = PyStr(S_9999px)
            /\ GetField(pr_val, "value") = PyStr(S_50pct)
         THEN << RadiusIssue(key, PyStr(S_9999px), PyStr(S_50pct)) >>
         ELSE << >>
    ELSE << >>

\* compare_key testing `not pr_props` (the whole dict) for `not pr_val`
compare_key_whole_dict(key, figma_val, pr) ==
    LET pr_val == Get(pr, key)
    IN  IF pr = << >> THEN missing_property(key, figma_val)
        ELSE IF IsDict(figma_val) /\ IsDict(pr_val) /\ Truthy(pr_val)
             THEN compare_descriptors(key, figma_val, pr_val)
        ELSE << >>

\* one iteration of the loop over figma_props.items(): the issues appended
\* for key
compare_key(key, figma_val, pr) ==
    LET pr_val == Get(pr, key)
    IN  IF ~Truthy(pr_val) THEN missing_property(key, figma_val)
        ELSE IF IsDict(figma_val) /\ IsDict(pr_val)
             THEN compare_descriptors(key, figma_val, pr_val)
        ELSE << >>

RECURSIVE compare_from(_, _, _)
compare_from(figma, pr, i) ==
    IF i > Len(figma) THEN << >>
    ELSE compare_key(figma[i].k, figma[i].v, pr) \o compare_from(figma, pr, i + 1)

compare_components(figma, pr) == compare_from(figma, pr, 1)

-----------------------------------------------------------------------------
(* analyze (src/app.py) and the loop body of process_design_review           *)
(* (src/index.py): extraction, resolution of both sides, comparison          *)

review(f, spec_props, tk, jsx) ==
    LET extracted == parse_jsx_props(jsx)
        figma_resolved == resolve_tokens_of(f, spec_props, tk)
        pr_resolved == resolve_tokens_of(f, extracted, tk)
    IN  IF figma_resolved = ValueError \/ pr_resolved = ValueError THEN ValueError
        ELSE Returned(compare_components(figma_resolved.returned, pr_resolved.returned))

-----------------------------------------------------------------------------
(* Inputs of parse_property_value *)

MaxFrags == 3
MaxNameFrags == 2

ValueFrags == { S_var_open, S_color_dash, <<")">>, S_px, <<"%">>, <<" ">>,
                <<"8">>, <<"1","0">>, <<"-">>, <<"a">>, <<".">> }

RECURSIVE Concats(_, _)
Concats(frags, n) ==
    IF n = 0 THEN { <<>> }
    ELSE LET shorter == Concats(frags, n - 1)
         IN  shorter \cup { s \o f : s \in shorter, f \in frags }

NameFrags == { S_color_dash, <<"a">>, <<"8">>, <<"-">>, S_px, <<"%">> }
TokenNames == Concats(NameFrags, MaxNameFrags) \ { <<>> }

VarRef(name) == S_var_open \o name \o <<")">>
ColorVarRef(name) == S_var_open \o S_color_dash \o name \o <<")">>

ParseInputs ==
    (Concats(ValueFrags, MaxFrags) \ { <<>> })
      \cup { VarRef(n) : n \in TokenNames }
      \cup { ColorVarRef(n) : n \in TokenNames }
      \cup { VarRef(n) \o <<"%">> : n \in TokenNames }

InitParse ==
    /\ value \in ParseInputs
    /\ parsed = Unset
    /\ props = None /\ tokens = None /\ resolved = None
    /\ figma_props = None /\ pr_props = None /\ other_props = None
    /\ idx = 0 /\ issues = None
    /\ figma_spec = None /\ jsx_content = None /\ file = None /\ result = None
    /\ BatchIdle

ParseValue ==
    /\ parsed = Unset
    /\ parsed' = parse_property_value(value)
    /\ UNCHANGED <<value, props, tokens, resolved, figma_props, pr_props,
                   other_props, idx, issues, figma_spec, jsx_content, file, result, batch_vars>>

NextParse == ParseValue

SpecParse == InitParse /\ [][NextParse]_vars

-----------------------------------------------------------------------------
(* Inputs of resolve_tokens *)

MaxProps == 2

S_8px == <<"8","p","x">>
S_autopx == <<"a","u","t","o","p","x">>
S_1_5px == <<"1",".","5","p","x">>
S_some_px == <<"s","o","m","e","-","p","x">>
S_8px_12px == <<"8","p","x"," ","1","2","p","x">>
S_brand_500 == <<"b","r","a","n","d","-","5","0","0">>
S_brand_600 == <<"b","r","a","n","d","-","6","0","0">>
S_red == <<"r","e","d">>
S_padding == <<"p","a","d","d","i","n","g">>
S_color == <<"c","o","l","o","r">>
S_hoverColor == S_hover \o <<"C","o","l","o","r">>

\* design tokens: each name has one value in the token file
TokenNamesPool == { S_brand_500, S_brand_600, S_some_px }
TokenValue(name) ==
    IF name = S_brand_500 THEN PyStr(<<"#","0","5","f">>)
    ELSE IF name = S_brand_600 THEN PyStr(<<"#","0","4","c">>)
    ELSE PyInt(4)
TokenDicts == { [n \in D |-> TokenValue(n)] : D \in SUBSET TokenNamesPool }

\* raw scalars of a reference JSON
RawScalars ==
    { PyStr(S_8px), PyStr(S_autopx), PyStr(S_1_5px), PyStr(S_8px_12px),
      PyStr(S_brand_500), PyStr(S_some_px), PyBool(TRUE), PyInt(400) }

\* attribute values of a markup
ParsedStrings == { S_8px, S_some_px, S_red, VarRef(S_brand_500), S_brand_600 }

\* descriptors the extractor produces
ParsedDescriptors == { parse_property_value(s) : s \in ParsedStrings }

\* structured descriptors written directly in a reference JSON
JsonDescriptors ==
    { [token |-> PyStr(t), value |-> PyStr(v)] :
        t \in { S_brand_500, S_brand_600, S_red }, v \in { S_brand_500, S_autopx } }

PropValues == RawScalars \cup ParsedDescriptors \cup JsonDescriptors

PropKeys == { S_padding, S_color, S_borderRadius }

RECURSIVE PropMaps(_, _, _)
PropMaps(keys, vals, n) ==
    IF n = 0 THEN { <<>> }
    ELSE LET shorter == PropMaps(keys, vals, n - 1)
         IN  shorter \cup
             { Append(m, [k |-> key, v |-> val]) :
                 m \in { x \in shorter : Len(x) = n - 1 }, key \in keys, val \in vals }

DistinctKeys(m) == \A i, j \in 1..Len(m) : m[i].k = m[j].k => i = j

InitResolve ==
    /\ props \in { m \in PropMaps(PropKeys, PropValues, MaxProps) : DistinctKeys(m) }
    /\ tokens \in TokenDicts
    /\ file \in { "app", "index" }
    /\ resolved = Unset
    /\ value = None /\ parsed = None
    /\ figma_props = None /\ pr_props = None /\ other_props = None
    /\ idx = 0 /\ issues = None
    /\ figma_spec = None /\ jsx_content = None /\ result = None
    /\ BatchIdle

Resolve ==
    /\ resolved = Unset
    /\ resolved' = resolve_tokens_of(file, props, tokens)
    /\ UNCHANGED <<value, parsed, props, tokens, figma_props, pr_props,
                   other_props, idx, issues, figma_spec, jsx_content, file, result, batch_vars>>

NextResolve == Resolve

SpecResolve == InitResolve /\ [][NextResolve]_vars

-----------------------------------------------------------------------------
(* Inputs of compare_components: resolved property maps *)

MaxRefProps == 2
MaxImplProps == 1

S_focusRing == S_focus \o <<"R","i","n","g">>
S_9px == <<"9","p","x">>
S_10px == <<"1","0","p","x">>
S_11px == <<"1","1","p","x">>
S_12px == <<"1","2","p","x">>

\* key order of the implementation dict plays no part in a lookup: the maps
\* are enumerated with their keys in one fixed order
KeyRank(key) ==
    IF key = S_padding THEN 1
    ELSE IF key = S_borderRadius THEN 2
    ELSE IF key = S_hoverColor THEN 3
    ELSE IF key = S_focusRing THEN 4
    ELSE 5

RankOrdered(m) == \A i, j \in 1..Len(m) : i < j => KeyRank(m[i].k) < KeyRank(m[j].k)

RefKeys == { S_padding, S_borderRadius, S_hoverColor, S_focusRing, S_imageAltRequired }
ImplKeys == { S_padding, S_borderRadius, S_hoverColor }

TokenDescriptor(name) ==
    [token |-> PyStr(name), value |-> PyStr(name), resolved |-> TokenValue(name)]

\* values of a resolved reference map
RefValues ==
    { TokenDescriptor(S_brand_500),
      resolve_prop(PyStr(S_8px), << >>),
      resolve_prop(PyStr(S_9999px), << >>),
      PyBool(TRUE) }

\* values of a resolved implementation map
ImplValues ==
    { TokenDescriptor(S_brand_500), TokenDescriptor(S_brand_600),
      resolve_prop_index(parse_property_value(S_12px), S_12px :> PyInt(12)) }
      \cup { resolve_prop(parse_property_value(v), << >>) :
               v \in { S_8px, S_9px, S_10px, S_11px, S_12px, S_50pct } }

RefMaps == { m \in PropMaps(RefKeys, RefValues, MaxRefProps) : DistinctKeys(m) }
ImplMaps == { m \in PropMaps(ImplKeys, ImplValues, MaxImplProps) : RankOrdered(m) }

InitCompare ==
    /\ figma_props \in RefMaps
    /\ pr_props \in ImplMaps
    /\ idx = 1
    /\ issues = << >>
    /\ other_props = None
    /\ value = None /\ parsed = None
    /\ props = None /\ tokens = None /\ resolved = None
    /\ figma_spec = None /\ jsx_content = None /\ file = None /\ result = None
    /\ BatchIdle

\* one iteration of `for key, figma_val in figma_props.items()`
CompareStep ==
    /\ idx \in 1..Len(figma_props)
    /\ issues' = issues \o compare_key(figma_props[idx].k, figma_props[idx].v, pr_props)
    /\ idx' = idx + 1
    /\ UNCHANGED <<value, parsed, props, tokens, resolved, figma_props, pr_props,
                   other_props, figma_spec, jsx_content, file, result, batch_vars>>

NextCompare == CompareStep

SpecCompare == InitCompare /\ [][NextCompare]_vars

CompareDone == idx = Len(figma_props) + 1

\* two runs of compare_components on one reference map
TwiceRefMaps ==
    { m \in PropMaps(RefKeys,
                     { TokenDescriptor(S_brand_500), resolve_prop(PyStr(S_8px), << >>),
                       PyBool(TRUE) },
                     MaxRefProps) : DistinctKeys(m) }
TwiceImplMaps ==
    { m \in PropMaps(ImplKeys,
                     { TokenDescriptor(S_brand_600),
                       resolve_prop(parse_property_value(S_12px), << >>) },
                     MaxImplProps) : RankOrdered(m) }

InitCompareTwice ==
    /\ figma_props \in TwiceRefMaps
    /\ pr_props \in TwiceImplMaps
    /\ other_props \in TwiceImplMaps
    /\ idx = 1
    /\ issues = << >>
    /\ value = None /\ parsed = None
    /\ props = None /\ tokens = None /\ resolved = None
    /\ figma_spec = None /\ jsx_content = None /\ file = None /\ result = None
    /\ BatchIdle

\* compare_components(figma_props, pr_props, component_name), start to return
Compare ==
    /\ idx = 1
    /\ issues' = compare_components(figma_props, pr_props)
    /\ idx' = Len(figma_props) + 1
    /\ UNCHANGED <<value, parsed, props, tokens, resolved, figma_props, pr_props,
                   other_props, figma_spec, jsx_content, file, result, batch_vars>>

NextCompareTwice == Compare

SpecCompareTwice == InitCompareTwice /\ [][NextCompareTwice]_vars

-----------------------------------------------------------------------------
(* Inputs of the pipeline: raw reference props, tokens, markup *)

MaxSpecProps == 1
MaxAttrs == 1

S_tag_open == <<"<","B","u","t","t","o","n">>
S_tag_close == <<" ","/",">">>

Attr(key, val) == <<" ">> \o key \o <<"=","\"">> \o val \o <<"\"">>
StyleEntry(key, val) == key \o <<":"," ","\"">> \o val \o <<"\"">>
StyleBlock(entries) == <<" ">> \o S_style_open \o entries \o <<"}","}">>

AttrFrags ==
    { Attr(key, val) : key \in { S_color, S_padding },
                       val \in { VarRef(S_brand_500), VarRef(S_brand_600), S_10px } }

StyleEntries ==
    { StyleEntry(S_color, VarRef(S_brand_600)), StyleEntry(S_borderRadius, S_50pct) }

StyleBlocks ==
    { << >> } \cup { StyleBlock(e) : e \in StyleEntries }
      \cup { StyleBlock(e[1] \o <<","," ">> \o e[2]) :
               e \in { q \in StyleEntries \X StyleEntries : q[1] # q[2] } }

Markups ==
    { S_tag_open \o attrs \o style \o S_tag_close :
        attrs \in Concats(AttrFrags, MaxAttrs), style \in StyleBlocks }

SpecKeys == { S_color, S_padding, S_borderRadius, S_imageAltRequired }
SpecValues == { PyStr(VarRef(S_brand_500)), PyStr(S_8px), PyStr(S_9999px), PyBool(TRUE) }
SpecProps == { m \in PropMaps(SpecKeys, SpecValues, MaxSpecProps) : DistinctKeys(m) }

PipelineTokenDicts ==
    { [n \in D |-> TokenValue(n)] : D \in SUBSET { S_brand_500, S_brand_600 } }

InitPipeline ==
    /\ figma_spec \in SpecProps
    /\ tokens \in PipelineTokenDicts
    /\ jsx_content \in Markups
    /\ file \in { "app", "index" }
    /\ result = Unset
    /\ value = None /\ parsed = None
    /\ props = None /\ resolved = None
    /\ figma_props = None /\ pr_props = None /\ other_props = None
    /\ idx = 0 /\ issues = None
    /\ BatchIdle

Analyze ==
    /\ result = Unset
    /\ result' = review(file, figma_spec, tokens, jsx_content)
    /\ UNCHANGED <<value, parsed, props, tokens, resolved, figma_props, pr_props,
                   other_props, idx, issues, figma_spec, jsx_content, file, batch_vars>>

NextPipeline == Analyze

SpecPipeline == InitPipeline /\ [][NextPipeline]_vars

-----------------------------------------------------------------------------
(* process_design_review (src/index.py): the batch driver                   *)
(*                                                                          *)
(* A file of ./data is Missing (open or the JSON parser fails, so load_json *)
(* and load_jsx return None) or File(x) with x the value loaded.  The two   *)
(* timestamps are left out of the result dicts.                             *)

components == << "dropdown", "button", "avatar", "header", "checkbox" >>

Missing == [missing |-> TRUE]
File(x) == [content |-> x]
Loaded(f) == "content" \in DOMAIN f

KeyError == Raised("KeyError")

\* diff_result as built before the loop
NewDiffResult ==
    [ metadata |-> [ totalComponents |-> Len(components),
                     totalIssues |-> 0,
                     summary |-> [major |-> 0, minor |-> 0, warnings |-> 0] ],
      components |-> << >> ]

\* parsed_values as built before the loop
NewParsedValues == [ components |-> << >> ]

\* the counter update with `if` in place of `elif`: a MAJOR issue falls
\* through to the else branch as well
count_issue_no_elif(metadata, issue) ==
    LET counted == [metadata EXCEPT !.totalIssues = @ + 1]
        major == IF issue.severity = "MAJOR"
                 THEN [counted EXCEPT !.summary.major = @ + 1] ELSE counted
    IN  IF issue.severity = "MINOR"
        THEN [major EXCEPT !.summary.minor = @ + 1]
        ELSE [major EXCEPT !.summary.warnings = @ + 1]

\* body of `for issue in issues`
count_issue(metadata, issue) ==
    LET counted == [metadata EXCEPT !.totalIssues = @ + 1]
    IN  IF issue.severity = "MAJOR"
        THEN [counted EXCEPT !.summary.major = @ + 1]
        ELSE IF issue.severity = "MINOR"
        THEN [counted EXCEPT !.summary.minor = @ + 1]
        ELSE [counted EXCEPT !.summary.warnings = @ + 1]

\* `for issue in issues`
RECURSIVE count_issues(_, _)
count_issues(metadata, list) ==
    IF list = << >> THEN metadata
    ELSE count_issues(count_issue(metadata, Head(list)), Tail(list))

\* the loop body from parse_jsx_props to compare_components for a loaded
\* spec and markup: Raised(e), or Returned of the parsed_values entry and
\* the issue list
process_component(figma_data, pr_content, tk) ==
    IF "props" \notin DOMAIN figma_data THEN KeyError
    ELSE
    LET pr_props_raw == parse_jsx_props(pr_content)
        figma_resolved == resolve_tokens_index(figma_data.props, tk)
        pr_resolved == resolve_tokens_index(pr_props_raw, tk)
    IN  IF figma_resolved = ValueError \/ pr_resolved = ValueError THEN ValueError
        ELSE IF ~({"component", "variant"} \subseteq DOMAIN figma_data) THEN KeyError
        ELSE Returned(
               [ parsed |-> [ figma |-> [ component |-> figma_data.component,
                                          variant |-> figma_data.variant,
                                          props |-> figma_resolved.returned ],
                              pr |-> [ component |-> figma_data.component,
                                       extractedProps |-> pr_resolved.returned ] ],
                 issues |-> compare_components(figma_resolved.returned,
                                               pr_resolved.returned) ])

\* `if not figma_data` / `if not pr_content` / `if not tokens` on a file
NotSpec(f) == IF Loaded(f) THEN ~Truthy(f.content) ELSE TRUE
NotMarkup(f) == IF Loaded(f) THEN f.content = << >> ELSE TRUE
NotTokens(f) == IF Loaded(f) THEN DOMAIN f.content = {} ELSE TRUE

(* Files of ./data *)

TokenFiles ==
    { Missing, File([n \in {} |-> TokenValue(n)]),
      File([n \in { S_brand_500 } |-> TokenValue(n)]) }

S_Button == <<"B","u","t","t","o","n">>

SpecFile(m) == File([component |-> PyStr(S_Button), variant |-> PyStr(S_hover), props |-> m])

SpecFiles ==
    { Missing,
      File([component |-> PyStr(S_Button)]),
      SpecFile(<< [k |-> S_padding, v |-> PyStr(S_8px)] >>),
      SpecFile(<< [k |-> S_padding, v |-> PyStr(S_8px)],
                  [k |-> S_color, v |-> PyStr(S_brand_500)] >>) }

MarkupFiles ==
    { Missing, File(<< >>) }
      \cup { File(S_tag_open \o Attr(S_padding, val) \o S_tag_close) :
               val \in { S_8px, S_9px, S_12px, S_some_px } }

InitBatch ==
    /\ pc = "load_tokens"
    /\ tokens = None
    /\ diff_result = None /\ parsed_values = None
    /\ component = 0 /\ output = None
    /\ value = None /\ parsed = None
    /\ props = None /\ resolved = None
    /\ figma_props = None /\ pr_props = None /\ other_props = None
    /\ idx = 0 /\ issues = None
    /\ figma_spec = None /\ jsx_content = None /\ file = None /\ result = None

other_vars == <<value, parsed, props, resolved, figma_props, pr_props, other_props,
                idx, issues, figma_spec, jsx_content, file, result>>

\* tokens = load_json('./data/token.json'), return if not loaded, else the
\* two result dicts are built and the loop starts
LoadTokens ==
    /\ pc = "load_tokens"
    /\ \E f \in TokenFiles :
         IF NotTokens(f)
         THEN /\ pc' = "returned"
              /\ UNCHANGED <<tokens, diff_result, parsed_values, component>>
         ELSE /\ tokens' = f.content
              /\ parsed_values' = NewParsedValues
              /\ diff_result' = NewDiffResult
              /\ component' = 1
              /\ pc' = "loop"
    /\ UNCHANGED <<output, other_vars>>

\* `if not figma_data: continue`
SkipSpec ==
    /\ pc = "loop" /\ component \in 1..Len(components)
    /\ \E figma \in SpecFiles : NotSpec(figma)
    /\ component' = component + 1
    /\ UNCHANGED <<tokens, diff_result, parsed_values, pc, output, other_vars>>

\* `if not pr_content: continue`
SkipMarkup ==
    /\ pc = "loop" /\ component \in 1..Len(components)
    /\ \E figma \in SpecFiles, pr \in MarkupFiles : ~NotSpec(figma) /\ NotMarkup(pr)
    /\ component' = component + 1
    /\ UNCHANGED <<tokens, diff_result, parsed_values, pc, output, other_vars>>

\* an iteration that reaches the end of the loop body
ReviewComponent ==
    /\ pc = "loop" /\ component \in 1..Len(components)
    /\ \E figma \in SpecFiles, pr \in MarkupFiles :
         /\ ~NotSpec(figma) /\ ~NotMarkup(pr)
         /\ LET r == process_component(figma.content, pr.content, tokens)
            IN  /\ IsReturned(r)
                /\ parsed_values' =
                     [parsed_values EXCEPT
                        !.components = Put(@, components[component], r.returned.parsed)]
                /\ diff_result' =
                     [ metadata |-> count_issues(diff_result.metadata, r.returned.issues),
                       components |->
                           Put(diff_result.components, components[component],
                               [ status |-> IF r.returned.issues # << >>
                                            THEN "ISSUES_FOUND" ELSE "PERFECT_MATCH",
                                 issues |-> r.returned.issues ]) ]
    /\ component' = component + 1
    /\ UNCHANGED <<tokens, pc, output, other_vars>>

\* an iteration left by an exception: process_design_review catches none
RaiseComponent ==
    /\ pc = "loop" /\ component \in 1..Len(components)
    /\ \E figma \in SpecFiles, pr \in MarkupFiles :
         /\ ~NotSpec(figma) /\ ~NotMarkup(pr)
         /\ ~IsReturned(process_component(figma.content, pr.content, tokens))
    /\ pc' = "raised"
    /\ UNCHANGED <<tokens, diff_result, parsed_values, component, output, other_vars>>

\* after the loop: both dicts are written to ./output
WriteResults ==
    /\ pc = "loop" /\ component = Len(components) + 1
    /\ output' = [parsed_values |-> parsed_values, diff_result |-> diff_result]
    /\ pc' = "done"
    /\ UNCHANGED <<tokens, diff_result, parsed_values, component, other_vars>>

NextBatch ==
    \/ LoadTokens
    \/ SkipSpec
    \/ SkipMarkup
    \/ ReviewComponent
    \/ RaiseComponent
    \/ WriteResults

SpecBatch == InitBatch /\ [][NextBatch]_vars

-----------------------------------------------------------------------------
(* Claims about parse_property_value (SpecParse) *)

HasField(d, f) == IsDict(d) /\ f \in DOMAIN d
HasToken(d, name) == HasField(d, "token") /\ d.token = PyStr(name)
ColorPrefixed(name) == StartsWith(name, S_color_dash) /\ Len(name) > Len(S_color_dash)
WithoutColor(name) == SubSeq(name, Len(S_color_dash) + 1, Len(name))

\* s holds a reference var(--NAME) with a non-empty NAME free of ')'
HasVarRef(s) ==
    \E i \in 1..Len(s) : \E j \in (i + 7)..Len(s) :
        /\ StartsWithAt(s, S_var_open, i)
        /\ s[j] = ")"
        /\ \A k \in (i + 6)..(j - 1) : s[k] # ")"

\* C8 as stated: for every token name X, var(--color-X) and var(--X) both
\* parse to a descriptor whose token is X, also when X begins with "color-".
C8_AsStated ==
    \A n \in TokenNames :
        (parsed # Unset /\ value \in { VarRef(n), ColorVarRef(n) }) => HasToken(parsed, n)

\* C8 amended: var(--color-X) parses to token X for every token name X;
\* var(--X) parses to token X unless X is "color-" followed by at least one
\* character, and then to X without that prefix.
C8_Amended ==
    \A n \in TokenNames :
        parsed # Unset =>
            /\ value = ColorVarRef(n) => HasToken(parsed, n)
            /\ (value = VarRef(n) /\ ~ColorPrefixed(n)) => HasToken(parsed, n)
            /\ (value = VarRef(n) /\ ColorPrefixed(n)) => HasToken(parsed, WithoutColor(n))

C8_Witness ==
    /\ parsed # Unset
    /\ \E n \in TokenNames :
          ColorPrefixed(n) /\ value = ColorVarRef(n) /\ HasToken(parsed, n)

\* C9 as stated: every string ending in '%' parses to type "percentage" with
\* no normalized field, whatever precedes the '%'.
C9_AsStated ==
    (parsed # Unset /\ EndsWith(value, <<"%">>)) =>
        /\ HasField(parsed, "type") /\ parsed.type = PyStr(S_percentage)
        /\ ~HasField(parsed, "normalized")

\* C9 amended: every string ending in '%' parses to a descriptor without a
\* normalized field; its type is "percentage" unless the string holds a
\* var(--NAME) reference, which wins and gives a token descriptor without type.
C9_Amended ==
    (parsed # Unset /\ EndsWith(value, <<"%">>)) =>
        /\ ~HasField(parsed, "normalized")
        /\ ~HasVarRef(value) =>
              HasField(parsed, "type") /\ parsed.type = PyStr(S_percentage)
        /\ HasVarRef(value) =>
              HasField(parsed, "token") /\ ~HasField(parsed, "type")

C9_Witness ==
    /\ parsed # Unset
    /\ EndsWith(value, <<"%">>)
    /\ Contains(value, S_px)
    /\ ~HasVarRef(value)
    /\ HasField(parsed, "type")

-----------------------------------------------------------------------------
(* Claims about resolve_tokens (SpecResolve) *)

\* the string a property carries as its value: the raw scalar itself, or the
\* 'value' field of a structured descriptor; None when it carries no string
ValueString(p) ==
    IF IsStr(p) THEN p
    ELSE IF HasField(p, "value") /\ IsStr(p.value) THEN p.value
    ELSE None

\* a string ending in 'px' whose prefix is not an integer
BadLength(s) == EndsWith(s, S_px) /\ int(SubSeq(s, 1, Len(s) - 2)) = ValueError

\* C4 as stated: a length string that fails to parse as an integer never makes
\* resolve_tokens raise; the property's descriptor keeps value and omits
\* normalized, for raw scalars and structured descriptors alike.
C4_AsStated ==
    resolved # Unset =>
        \A i \in 1..Len(props) :
            LET s == ValueString(props[i].v)
            IN  (s # None /\ BadLength(s.str)) =>
                    /\ IsReturned(resolved)
                    /\ HasField(resolved.returned[i].v, "value")
                    /\ resolved.returned[i].v.value = s
                    /\ ~HasField(resolved.returned[i].v, "normalized")

\* C5 as stated: after resolve_tokens every property whose value equals a key
\* K of the token dictionary has resolved == tokens[K] and token == K, raw
\* scalar or structured descriptor, with or without a token field.
C5_AsStated ==
    IsReturned(resolved) =>
        \A i \in 1..Len(props) :
            LET s == ValueString(props[i].v)
                r == resolved.returned[i].v
            IN  (s # None /\ s.str \in DOMAIN tokens) =>
                    /\ HasField(r, "resolved") /\ r.resolved = tokens[s.str]
                    /\ HasField(r, "token") /\ r.token = s

\* the descriptor already names a token of the dictionary
CarriesKnownToken(p) == HasField(p, "token") /\ InTokens(p.token, tokens)

\* C5 amended: whenever resolve_tokens returns, a property whose value equals
\* a key K of the token dictionary has resolved == tokens[K] and token == K,
\* unless it is a descriptor whose own token field is a key of the dictionary:
\* then resolved == tokens[token] and token is left as it was.
C5_Amended ==
    IsReturned(resolved) =>
        \A i \in 1..Len(props) :
            LET p == props[i].v
                s == ValueString(p)
                r == resolved.returned[i].v
            IN  (s # None /\ s.str \in DOMAIN tokens) =>
                    /\ HasField(r, "resolved") /\ HasField(r, "token")
                    /\ ~CarriesKnownToken(p) =>
                          r.resolved = tokens[s.str] /\ r.token = s
                    /\ CarriesKnownToken(p) =>
                          r.resolved = tokens[p.token.str] /\ r.token = p.token

C5_Witness ==
    /\ IsReturned(resolved)
    /\ \E i \in 1..Len(props) :
          LET p == props[i].v
          IN  /\ HasField(p, "token") /\ HasField(p, "value")
              /\ ~InTokens(p.token, tokens)
              /\ InTokens(p.value, tokens)
              /\ resolved.returned[i].v.token = p.value

-----------------------------------------------------------------------------
(* Claims about compare_components (SpecCompare, SpecCompareTwice) *)

InLoop == idx \in 1..Len(figma_props)
Last(q) == q[Len(q)]

\* this step appends exactly one issue
AppendsOne ==
    /\ Len(issues') = Len(issues) + 1
    /\ SubSeq(issues', 1, Len(issues)) = issues

AppendsIssue(severity, category, key) ==
    /\ AppendsOne
    /\ Last(issues').severity = severity
    /\ Last(issues').category = category
    /\ Last(issues').property = key

TokenRuleApplies(figma_val, pr_val) ==
    /\ HasField(figma_val, "token") /\ Truthy(figma_val.token)
    /\ HasField(pr_val, "token") /\ Truthy(pr_val.token)

\* the key at position i is on both sides with a normalized integer each, and
\* the token rule does not apply
BothNormalizedAt(i) ==
    LET key == figma_props[i].k
        figma_val == figma_props[i].v
        pr_val == Get(pr_props, key)
    IN  /\ key \in Keys(pr_props)
        /\ HasField(figma_val, "normalized") /\ HasField(pr_val, "normalized")
        /\ ~TokenRuleApplies(figma_val, pr_val)

DiffAt(i) ==
    Abs(figma_props[i].v.normalized - Get(pr_props, figma_props[i].k).normalized)

\* C3: for a key on both sides whose descriptors both carry a normalized
\* integer, and to which the token rule does not apply, the loop iteration
\* appends nothing when the absolute difference d is 0, one MINOR
\* VALUE_DIFFERENCE issue when 1 <= d <= 2, one MAJOR VALUE_DIFFERENCE issue
\* when d > 2.
C3_ValueDifference ==
    [][ (InLoop /\ BothNormalizedAt(idx)) =>
            /\ DiffAt(idx) = 0 => issues' = issues
            /\ (1 <= DiffAt(idx) /\ DiffAt(idx) <= 2) =>
                  AppendsIssue("MINOR", "VALUE_DIFFERENCE", figma_props[idx].k)
            /\ DiffAt(idx) > 2 =>
                  AppendsIssue("MAJOR", "VALUE_DIFFERENCE", figma_props[idx].k) ]_vars

C3_Witness ==
    /\ idx > 1
    /\ BothNormalizedAt(idx - 1)
    /\ DiffAt(idx - 1) > 2
    /\ HasField(Get(pr_props, figma_props[idx - 1].k), "token")
    /\ issues # << >>
    /\ Last(issues).severity = "MAJOR"
    /\ Last(issues).category = "VALUE_DIFFERENCE"

HoverOrFocus(key) == Contains(key, S_hover) \/ Contains(key, S_focus)

\* C6: for a reference key without an entry in the implementation map, the
\* loop iteration appends nothing when the key contains "hover" or "focus",
\* and otherwise, unless the key is imageAltRequired with the value true,
\* exactly one MINOR MISSING_PROPERTY issue for the key.
C6_MissingProperty ==
    [][ (InLoop /\ figma_props[idx].k \notin Keys(pr_props)) =>
            /\ HoverOrFocus(figma_props[idx].k) => issues' = issues
            /\ ( /\ ~HoverOrFocus(figma_props[idx].k)
                 /\ ~( /\ figma_props[idx].k = S_imageAltRequired
                       /\ figma_props[idx].v = PyBool(TRUE) ) ) =>
                  AppendsIssue("MINOR", "MISSING_PROPERTY", figma_props[idx].k) ]_vars

C6_Witness ==
    /\ idx = 3
    /\ Keys(figma_props) \cap Keys(pr_props) = {}
    /\ Contains(figma_props[1].k, S_focus)
    /\ ~HoverOrFocus(figma_props[2].k)
    /\ Len(issues) = 1
    /\ issues[1].category = "MISSING_PROPERTY"
    /\ issues[1].property = figma_props[2].k

\* C7: the issue list depends only on the reference map and on the
\* implementation entries under reference keys: a second run whose
\* implementation map agrees with the first on every reference key returns
\* the same ordered issue list.
C7_ReferenceDriven ==
    ( /\ CompareDone
      /\ \A key \in Keys(figma_props) : Get(pr_props, key) = Get(other_props, key) )
        => issues = compare_components(figma_props, other_props)

C7_Witness ==
    /\ CompareDone
    /\ \A key \in Keys(figma_props) : Get(pr_props, key) = Get(other_props, key)
    /\ Keys(other_props) \ Keys(figma_props) # {}
    /\ pr_props = << >>
    /\ Len(issues) = 2
    /\ issues = compare_components(figma_props, other_props)

\* C10: every loop iteration moves to the next reference key and leaves the
\* issue list as it was or appends one issue, about that key, at its end: at
\* most one issue per reference key, in the iteration order of the keys.
C10_OnePerKeyInOrder ==
    [][ /\ InLoop
        /\ idx' = idx + 1
        /\ \/ issues' = issues
           \/ /\ AppendsOne
              /\ Last(issues').property \in { figma_props[idx].k, S_alt }
        /\ Len(issues') <= idx ]_vars

C10_Witness ==
    /\ idx = 3
    /\ Len(issues) = 2
    /\ issues[1].property = figma_props[1].k
    /\ issues[2].property = figma_props[2].k

-----------------------------------------------------------------------------
(* Claims about the pipeline (SpecPipeline) *)

IssuesFor(key) ==
    { i \in 1..Len(result.returned) : result.returned[i].property = key }

\* C1 as stated: with reference props {"imageAltRequired": true} and markup
\* without an imageAltRequired property, the pipeline yields an issue of
\* severity MAJOR and category ACCESSIBILITY_VIOLATION, whatever the tokens.
C1_AsStated ==
    ( /\ result # Unset
      /\ figma_spec = << [k |-> S_imageAltRequired, v |-> PyBool(TRUE)] >>
      /\ S_imageAltRequired \notin Keys(parse_jsx_props(jsx_content)) )
        => /\ IsReturned(result)
           /\ \E i \in 1..Len(result.returned) :
                 /\ result.returned[i].severity = "MAJOR"
                 /\ result.returned[i].category = "ACCESSIBILITY_VIOLATION"

\* C2 as stated: when the reference gives a key the raw value var(--A) and
\* the markup assigns var(--B), A # B, to a property extracted under the same
\* key, the pipeline emits exactly one issue for the key, MAJOR TOKEN_MISMATCH.
C2_AsStated ==
    result # Unset =>
        \A key \in Keys(figma_spec) : \A a, b \in { S_brand_500, S_brand_600 } :
            ( /\ a # b
              /\ Get(figma_spec, key) = PyStr(VarRef(a))
              /\ Get(parse_jsx_props(jsx_content), key) = parse_property_value(VarRef(b)) )
                => /\ IsReturned(result)
                   /\ Cardinality(IssuesFor(key)) = 1
                   /\ \A i \in IssuesFor(key) :
                         /\ result.returned[i].severity = "MAJOR"
                         /\ result.returned[i].category = "TOKEN_MISMATCH"

-----------------------------------------------------------------------------
(* Claims about the two copies of resolve_tokens (SpecResolve) *)

OtherFile(f) == IF f = "app" THEN "index" ELSE "app"

\* a raw reference props map: scalars only
RawProps(m) == \A i \in 1..Len(m) : ~IsDict(m[i].v)

\* the property maps parse_jsx_props extracts from markups of up to MaxProps
\* attributes
ExtractedMaps ==
    { parse_jsx_props(S_tag_open \o attrs \o S_tag_close) :
        attrs \in Concats({ Attr(key, val) : key \in PropKeys, val \in ParsedStrings },
                          MaxProps) }

\* C11 as stated: on a raw reference props map or a property map extracted
\* by parse_jsx_props, with any token dictionary, resolve_tokens of src/app.py
\* and of src/index.py return the same resolved map or both fail, also for a
\* descriptor whose value ends in 'px' without a space.
C11_AsStated ==
    ( /\ resolved # Unset
      /\ RawProps(props) \/ props \in ExtractedMaps )
        => resolved = resolve_tokens_of(OtherFile(file), props, tokens)

-----------------------------------------------------------------------------
(* Claims about process_design_review (SpecBatch) *)

\* sum of the lengths of the issue lists stored in a components dict
RECURSIVE StoredIssues(_)
StoredIssues(m) ==
    IF m = << >> THEN 0 ELSE Len(Head(m).v.issues) + StoredIssues(Tail(m))

CountersAgree(d) ==
    /\ d.metadata.totalIssues
         = d.metadata.summary.major + d.metadata.summary.minor + d.metadata.summary.warnings
    /\ d.metadata.totalIssues = StoredIssues(d.components)

\* the loop moved past a component and stored nothing for it
Skipped ==
    /\ pc = "loop" /\ component' = component + 1
    /\ components[component] \notin Keys(diff_result'.components)

\* C12: in process_design_review, once the loop runs, totalIssues equals
\* major + minor + warnings and equals the sum of the lengths of the issue
\* lists stored so far in diff_result['components'], after every component;
\* a component that is skipped because its spec or markup did not load
\* leaves diff_result, and so every counter, as it was.
C12_CountersAgree ==
    [][ /\ diff_result' # None => CountersAgree(diff_result')
        /\ Skipped => diff_result' = diff_result ]_vars

\* three components done: one skipped, two stored with a MAJOR and a MINOR
\* issue between them
C12_Witness ==
    /\ pc = "loop" /\ component = 4
    /\ Len(diff_result.components) = 2
    /\ diff_result.metadata.summary.major >= 1
    /\ diff_result.metadata.summary.minor >= 1
    /\ diff_result.metadata.totalIssues >= 3

====
